---- MODULE Spec2Model ----
(***************************************************************************)
(* Model of src/src/esp32-reference-code.cpp: the BLE command channel of   *)
(* the AQUADATA configurator.  Inbound fragments are accumulated in        *)
(* command_buffer by onWrite; a buffer that ends with a newline is         *)
(* trimmed, decoded and dispatched; wifi_config commands run the blocking  *)
(* connectToWifi poll loop; responses leave through sendBleResponse.       *)
(*                                                                         *)
(* Bytes are abstracted to lexical tokens of the wire format:              *)
(*   "NL"  '\n'            "SP"  ' '             "NUL" '\0'                *)
(*   "LB"  '{'             "RB"  '}'                                       *)
(*   "W"   the member text "type":"wifi_config","ssid":"Home",             *)
(*         "password":"abc"                                                *)
(*   "P"   the member text "type":"ping"                                   *)
(***************************************************************************)
EXTENDS Naturals, Sequences, FiniteSets, TLC

\* ------------------------------------------------------------ bounds
MaxBuf == 4
MaxFrag == 1
MaxStream == 4

\* ------------------------------------------------------------ constants
MaxAttempts == 30
PollDelay == 500
ResetDelay == 100

Bytes == {"NL", "SP", "NUL", "LB", "RB", "W", "P"}

RECURSIVE SeqsUpTo(_, _)
SeqsUpTo(S, n) ==
  IF n = 0 THEN {<<>>}
  ELSE LET prev == SeqsUpTo(S, n - 1)
       IN  prev \cup {Append(s, b) : s \in {t \in prev : Len(t) = n - 1}, b \in S}

Fragments == SeqsUpTo(Bytes, MaxFrag)

\* ------------------------------------------------------------ strings
\* std::string::c_str() handed to String::operator+= : the bytes up to the
\* first NUL are appended.
RECURSIVE CStr(_)
CStr(s) ==
  IF s = <<>> THEN <<>>
  ELSE IF Head(s) = "NUL" THEN <<>>
  ELSE <<Head(s)>> \o CStr(Tail(s))

\* command_buffer += rxValue.c_str()
\* (AccumulateDropsOld: the buffer assigned instead of appended to)
AccumulateDropsOld(buf, rx) == CStr(rx)
Accumulate(buf, rx) == buf \o CStr(rx)

\* command_buffer.endsWith("\n")
\* (EndsWithAnywhere: a newline anywhere in the buffer)
EndsWithAnywhere(buf) == \E i \in 1..Len(buf) : buf[i] = "NL"
EndsWithNewline(buf) == Len(buf) > 0 /\ buf[Len(buf)] = "NL"

\* isspace() on the token alphabet
IsSpace(b) == b \in {"SP", "NL"}

RECURSIVE LTrim(_)
LTrim(s) ==
  IF s = <<>> THEN <<>>
  ELSE IF IsSpace(Head(s)) THEN LTrim(Tail(s))
  ELSE s

RECURSIVE RTrim(_)
RTrim(s) ==
  IF s = <<>> THEN <<>>
  ELSE IF IsSpace(s[Len(s)]) THEN RTrim(SubSeq(s, 1, Len(s) - 1))
  ELSE s

\* String::trim(): leading and trailing whitespace removed in place
\* (TrimTrailingOnly: only the trailing whitespace removed)
TrimTrailingOnly(s) == RTrim(s)
Trim(s) == LTrim(RTrim(s))

\* ------------------------------------------------------------ decoding
NullStr == "NULL"

DecodeError == [error |-> TRUE, type |-> NullStr, ssid |-> NullStr, password |-> NullStr]
DecodedObject(m) ==
  IF m = "W"
  THEN [error |-> FALSE, type |-> "wifi_config", ssid |-> "Home", password |-> "abc"]
  ELSE IF m = "P"
  THEN [error |-> FALSE, type |-> "ping", ssid |-> NullStr, password |-> NullStr]
  ELSE [error |-> FALSE, type |-> NullStr, ssid |-> NullStr, password |-> NullStr]

\* deserializeJson(doc, command_buffer): skips whitespace, reads one document
\* and stops at its end; empty, incomplete or malformed input is an error.
DeserializeJson(s) ==
  LET a == LTrim(s)
  IN  IF a = <<>> \/ Head(a) # "LB" THEN DecodeError
      ELSE LET b == LTrim(Tail(a))
           IN  IF b = <<>> THEN DecodeError
               ELSE IF Head(b) = "RB" THEN DecodedObject("none")
               ELSE IF Head(b) \in {"W", "P"}
               THEN LET c == LTrim(Tail(b))
                    IN  IF c # <<>> /\ Head(c) = "RB"
                        THEN DecodedObject(Head(b))
                        ELSE DecodeError
               ELSE DecodeError

\* ------------------------------------------------------------ responses
\* errorObj of onWrite's decode-failure branch
ErrorObj == [type |-> "error", message |-> "Invalid JSON format"]

\* unknownObj of onWrite's else branch
UnknownObj == [type |-> "error", message |-> "Unknown command type"]

\* response of connectToWifi before the join
InfoResponse(s) ==
  [type |-> "wifi_config_response", status |-> "info",
   message |-> "Attempting to connect to " \o s \o "..."]

SuccessResponse(s) ==
  [type |-> "wifi_config_response", status |-> "success",
   message |-> "Successfully connected to " \o s]

FailureResponse(s) ==
  [type |-> "wifi_config_response", status |-> "error",
   message |-> "Failed to connect to " \o s \o ". Check credentials."]

\* sendBleResponse: the calls made into pTxCharacteristic (setValue, notify)
\* for one response, given the connection flag
\* (SendAlways: the flag is not tested; SendWhenDetached: the test inverted)
SendAlways(connected, response) == <<[value |-> response, term |-> "NL"]>>
SendWhenDetached(connected, response) ==
  IF ~connected THEN <<[value |-> response, term |-> "NL"]>> ELSE <<>>
SendBleResponse(connected, response) ==
  IF connected THEN <<[value |-> response, term |-> "NL"]>> ELSE <<>>

\* lines 76-102: what onWrite does with a decoded record whose type pointer
\* can be compared: the responses it sends itself, and whether it calls
\* connectToWifi
\* (DispatchNoReturn: the decode-failure branch without its return)
DispatchNoReturn(doc) ==
  IF doc.error THEN [emit |-> <<ErrorObj, UnknownObj>>, provision |-> FALSE]
  ELSE IF doc.type = "wifi_config" THEN [emit |-> <<>>, provision |-> TRUE]
  ELSE [emit |-> <<UnknownObj>>, provision |-> FALSE]
Dispatch(doc) ==
  IF doc.error THEN [emit |-> <<ErrorObj>>, provision |-> FALSE]
  ELSE IF doc.type = "wifi_config" THEN [emit |-> <<>>, provision |-> TRUE]
  ELSE [emit |-> <<UnknownObj>>, provision |-> FALSE]

\* command_buffer = "" at lines 84 and 105
\* (ClearedBufferKeeps: the assignment left out)
ClearedBufferKeeps(buf) == buf
ClearedBuffer(buf) == <<>>

\* the association after WiFi.disconnect() at line 194
\* (AfterResetOmitted: the call left out)
AfterResetOmitted(w) == w
AfterReset(w) == "none"

\* the association after WiFi.disconnect() at line 218
\* (AfterTeardownOmitted: the call left out)
AfterTeardownOmitted(w) == w
AfterTeardown(w) == "none"

\* the status the if at line 208 tests: a new WiFi.status() read, not the
\* value the loop condition saw
\* (OutcomeFromLoop: the value of the loop's last read reused)
OutcomeFromLoop(loopRead, finalRead) == loopRead
OutcomeRead(loopRead, finalRead) == finalRead

\* MyServerCallbacks::onDisconnect: the flag and the advertising after it
\* (DisconnectNoRestart: getAdvertising()->start() left out)
DisconnectNoRestart(adv) == [connected |-> FALSE, advertising |-> adv]
DisconnectEffect(adv) == [connected |-> FALSE, advertising |-> TRUE]

\* ------------------------------------------------------------ state
VARIABLES
  deviceConnected,   \* bool deviceConnected
  command_buffer,    \* String command_buffer
  advertising,       \* pServer->getAdvertising() is started
  wifi,              \* association of the WiFi primitive: none, joining, joined
  pc,                \* position of the callback context
  attempt,           \* int attempt of connectToWifi
  ssid,              \* parameter ssid of the running connectToWifi
  todo,              \* bytes the central still has to write (stream feeding)
  sent,              \* fragments the central has written of its stream
  \* what the current (or last) onWrite invocation did
  callInput,         \* command_buffer right after the append
  callFatal,         \* the invocation ended in a fatal exception
  callRecords,       \* records handed to deserializeJson
  callParsed,        \* what deserializeJson returned for them
  records,           \* records handed to deserializeJson since the stream began
  callEmit,          \* responses handed to sendBleResponse
  callTx,            \* calls made into pTxCharacteristic
  callAttached,      \* connectToWifi ran and the central was attached throughout
  callWifi,          \* calls made on the WiFi primitive
  callReads,         \* results of WiFi.status() reads
  elapsed,           \* time units spent in delay()
  callStale,         \* the dispatched record held bytes of an earlier connection
  callPrior,         \* the association when connectToWifi was entered
  \* the connection lifecycle
  lastEvent,         \* the last lifecycle callback: none, attach, detach
  stale              \* the buffer holds bytes left by a connection that ended

vars == <<deviceConnected, command_buffer, advertising, wifi, pc, attempt, ssid,
          todo, sent, records, callInput, callFatal, callRecords, callParsed,
          callEmit, callTx, callAttached, callWifi, callReads, elapsed,
          callStale, callPrior, lastEvent, stale>>

\* the while condition of connectToWifi
\* (LoopContinuesInclusive: attempt <= 30; LoopContinuesWhileAttached: the
\* loop gives up when the central detaches)
LoopContinuesInclusive(status, n) == status # "joined" /\ n <= MaxAttempts
LoopContinuesWhileAttached(status, n) ==
  deviceConnected /\ status # "joined" /\ n < MaxAttempts
LoopContinues(status, n) == status # "joined" /\ n < MaxAttempts

stream == <<todo, sent, records>>
dispatched == <<callInput, callFatal, callRecords, callParsed, callStale, callPrior>>
lifecycle == <<lastEvent, stale>>

history == <<callInput, callFatal, callRecords, callParsed, callEmit, callTx, callAttached,
             callWifi, callReads, elapsed, callStale, callPrior>>

\* globals after setup()
Setup ==
  /\ deviceConnected = FALSE
  /\ command_buffer = <<>>
  /\ advertising = TRUE
  /\ wifi = "none"
  /\ pc = "idle"
  /\ attempt = 0
  /\ ssid = NullStr

NoHistory ==
  /\ callInput = <<>>
  /\ callFatal = FALSE
  /\ callRecords = <<>>
  /\ callParsed = <<>>
  /\ callEmit = <<>>
  /\ callTx = <<>>
  /\ callAttached = FALSE
  /\ callWifi = <<>>
  /\ callReads = <<>>
  /\ elapsed = 0
  /\ callStale = FALSE
  /\ callPrior = "none"
  /\ lastEvent = "none"
  /\ stale = FALSE

Init ==
  /\ Setup
  /\ NoHistory
  /\ todo = <<>>
  /\ sent = <<>>
  /\ records = <<>>

\* WiFi.status() == WL_CONNECTED
WiFiStatus == IF wifi = "joined" THEN "joined" ELSE "not_joined"

\* ------------------------------------------------------------ onWrite
\* the buffer after line 66 (nothing is appended for an empty value)
Appended(rx) == IF Len(rx) > 0 THEN Accumulate(command_buffer, rx) ELSE command_buffer

\* line 61 and line 69
Complete(rx) == Len(rx) > 0 /\ EndsWithNewline(Appended(rx))

\* the buffer after line 71 and the document of line 74
Record(rx) == Trim(Appended(rx))
Doc(rx) == DeserializeJson(Record(rx))

\* every response of the sequence goes through sendBleResponse
RECURSIVE SendAll(_, _)
SendAll(connected, responses) ==
  IF responses = <<>> THEN <<>>
  ELSE SendBleResponse(connected, Head(responses)) \o SendAll(connected, Tail(responses))

StartCall(rx) ==
  /\ pc = "idle"
  /\ callInput' = Appended(rx)
  /\ callWifi' = <<>>
  /\ callReads' = <<>>
  /\ elapsed' = 0

\* no value, or no newline at the end of the buffer: the bytes stay buffered
OnWriteIncomplete(rx) ==
  /\ StartCall(rx)
  /\ ~Complete(rx)
  /\ command_buffer' = Appended(rx)
  /\ callRecords' = <<>>
  /\ callParsed' = <<>>
  /\ callAttached' = FALSE
  /\ callEmit' = <<>>
  /\ callTx' = <<>>
  /\ callFatal' = FALSE
  /\ callStale' = FALSE
  /\ callPrior' = "none"
  /\ UNCHANGED <<deviceConnected, advertising, wifi, pc, attempt, ssid, lifecycle>>

\* lines 76-86 and 94-105: the record is answered inside onWrite, which
\* clears the buffer and returns
OnWriteRespond(rx) ==
  /\ StartCall(rx)
  /\ Complete(rx)
  /\ Doc(rx).error \/ Doc(rx).type \notin {NullStr, "wifi_config"}
  /\ callRecords' = <<Record(rx)>>
  /\ callParsed' = <<Doc(rx)>>
  /\ callAttached' = FALSE
  /\ callEmit' = Dispatch(Doc(rx)).emit
  /\ callTx' = SendAll(deviceConnected, Dispatch(Doc(rx)).emit)
  /\ command_buffer' = ClearedBuffer(Record(rx))
  /\ callFatal' = FALSE
  /\ callStale' = (stale /\ deviceConnected)
  /\ callPrior' = "none"
  /\ stale' = FALSE
  /\ UNCHANGED <<deviceConnected, advertising, wifi, pc, attempt, ssid, lastEvent>>

\* lines 88-90: doc["type"] is a null pointer and strcmp dereferences it.
\* The load from address 0 either raises a fatal exception, which ends this
\* run of the program inside onWrite, or yields bytes that differ from
\* "wifi_config" (the else branch runs).
OnWriteNullType(rx) ==
  /\ StartCall(rx)
  /\ Complete(rx)
  /\ ~Doc(rx).error
  /\ Doc(rx).type = NullStr
  /\ callRecords' = <<Record(rx)>>
  /\ callParsed' = <<Doc(rx)>>
  /\ callAttached' = FALSE
  /\ callStale' = (stale /\ deviceConnected)
  /\ callPrior' = "none"
  /\ stale' = FALSE
  /\ \/ /\ callFatal' = TRUE
        /\ callEmit' = <<>>
        /\ callTx' = <<>>
        /\ command_buffer' = Record(rx)
        /\ pc' = "fatal"
        /\ UNCHANGED <<deviceConnected, advertising, wifi, attempt, ssid, lastEvent>>
     \/ /\ callFatal' = FALSE
        /\ callEmit' = Dispatch(Doc(rx)).emit
        /\ callTx' = SendAll(deviceConnected, Dispatch(Doc(rx)).emit)
        /\ command_buffer' = ClearedBuffer(Record(rx))
        /\ UNCHANGED <<deviceConnected, advertising, wifi, pc, attempt, ssid, lastEvent>>

\* lines 90-93 and 180-191: connectToWifi is entered and sends the info
\* response; the trimmed record stays in command_buffer until line 105
OnWriteWifiConfig(rx) ==
  /\ StartCall(rx)
  /\ Complete(rx)
  /\ Dispatch(Doc(rx)).provision
  /\ callRecords' = <<Record(rx)>>
  /\ callParsed' = <<Doc(rx)>>
  /\ command_buffer' = Record(rx)
  /\ ssid' = Doc(rx).ssid
  /\ callAttached' = deviceConnected
  /\ callEmit' = <<InfoResponse(Doc(rx).ssid)>>
  /\ callTx' = SendBleResponse(deviceConnected, InfoResponse(Doc(rx).ssid))
  /\ pc' = "reset"
  /\ callFatal' = FALSE
  /\ callStale' = (stale /\ deviceConnected)
  /\ callPrior' = wifi
  /\ stale' = FALSE
  /\ UNCHANGED <<deviceConnected, advertising, wifi, attempt, lastEvent>>

Handler(rx) ==
  \/ OnWriteIncomplete(rx)
  \/ OnWriteRespond(rx)
  \/ OnWriteNullType(rx)
  \/ OnWriteWifiConfig(rx)

\* onWrite with any value an attached central may write (a GATT write
\* needs a connection, so onConnect has run before it)
OnWrite ==
  \E rx \in Fragments :
    /\ deviceConnected
    /\ Len(command_buffer) + Len(rx) <= MaxBuf
    /\ Handler(rx)
    /\ records' = callRecords'
    /\ UNCHANGED <<todo, sent>>

\* onWrite with the next fragment of the stream the central is sending
OnWriteSplit ==
  \E n \in 1..Len(todo) :
    /\ deviceConnected
    /\ Handler(SubSeq(todo, 1, n))
    /\ records' = records \o callRecords'
    /\ sent' = Append(sent, SubSeq(todo, 1, n))
    /\ todo' = SubSeq(todo, n + 1, Len(todo))

\* ------------------------------------------------------------ connectToWifi
\* lines 194-195: WiFi.disconnect(); delay(100)
WifiReset ==
  /\ pc = "reset"
  /\ wifi' = AfterReset(wifi)
  /\ callWifi' = Append(callWifi, "disconnect")
  /\ elapsed' = elapsed + ResetDelay
  /\ pc' = "begin"
  /\ UNCHANGED <<deviceConnected, command_buffer, advertising, attempt, ssid, stream,
                 dispatched, callEmit, callTx, callAttached, callReads, lifecycle>>

\* lines 198-200: WiFi.begin(ssid, password); int attempt = 0
WifiBegin ==
  /\ pc = "begin"
  /\ wifi' = "joining"
  /\ callWifi' = Append(callWifi, "begin")
  /\ attempt' = 0
  /\ pc' = "poll"
  /\ UNCHANGED <<deviceConnected, command_buffer, advertising, ssid, stream,
                 dispatched, callEmit, callTx, callAttached, callReads, elapsed,
                 lifecycle>>

\* line 202: the loop condition reads WiFi.status()
PollStatus ==
  /\ pc = "poll"
  /\ callReads' = Append(callReads, WiFiStatus)
  /\ pc' = IF LoopContinues(WiFiStatus, attempt) THEN "delay" ELSE "final"
  /\ UNCHANGED <<deviceConnected, command_buffer, advertising, wifi, attempt, ssid,
                 stream, dispatched, callEmit, callTx, callAttached, callWifi, elapsed,
                 lifecycle>>

\* lines 203-205: delay(500); attempt++
PollWait ==
  /\ pc = "delay"
  /\ elapsed' = elapsed + PollDelay
  /\ attempt' = attempt + 1
  /\ pc' = "poll"
  /\ UNCHANGED <<deviceConnected, command_buffer, advertising, wifi, ssid, stream,
                 dispatched, callEmit, callTx, callAttached, callWifi, callReads,
                 lifecycle>>

\* lines 208-215 and 105: the second read reports WL_CONNECTED; the locals of
\* connectToWifi end with the call
FinishSuccess ==
  /\ pc = "final"
  /\ OutcomeRead(callReads[Len(callReads)], WiFiStatus) = "joined"
  /\ callReads' = Append(callReads, WiFiStatus)
  /\ callEmit' = Append(callEmit, SuccessResponse(ssid))
  /\ callTx' = callTx \o SendBleResponse(deviceConnected, SuccessResponse(ssid))
  /\ command_buffer' = ClearedBuffer(command_buffer)
  /\ pc' = "idle"
  /\ attempt' = 0
  /\ ssid' = NullStr
  /\ UNCHANGED <<deviceConnected, advertising, wifi, stream, dispatched,
                 callAttached, callWifi, elapsed, lifecycle>>

\* lines 216-223 and 105: the second read reports anything else
FinishFailure ==
  /\ pc = "final"
  /\ OutcomeRead(callReads[Len(callReads)], WiFiStatus) # "joined"
  /\ callReads' = Append(callReads, WiFiStatus)
  /\ wifi' = AfterTeardown(wifi)
  /\ callWifi' = Append(callWifi, "disconnect")
  /\ callEmit' = Append(callEmit, FailureResponse(ssid))
  /\ callTx' = callTx \o SendBleResponse(deviceConnected, FailureResponse(ssid))
  /\ command_buffer' = ClearedBuffer(command_buffer)
  /\ pc' = "idle"
  /\ attempt' = 0
  /\ ssid' = NullStr
  /\ UNCHANGED <<deviceConnected, advertising, stream, dispatched, callAttached,
                 elapsed, lifecycle>>

\* ------------------------------------------------------------ lifecycle
\* the program is running (a fatal exception has not ended it)
Running == pc # "fatal"

\* MyServerCallbacks::onConnect; the radio stops advertising once a central
\* is attached
OnConnect ==
  /\ Running
  /\ ~deviceConnected
  /\ deviceConnected' = TRUE
  /\ advertising' = FALSE
  /\ lastEvent' = "attach"
  /\ UNCHANGED <<command_buffer, wifi, pc, attempt, ssid, stream, history, stale>>

\* MyServerCallbacks::onDisconnect
OnDisconnect ==
  /\ Running
  /\ deviceConnected
  /\ deviceConnected' = DisconnectEffect(advertising).connected
  /\ advertising' = DisconnectEffect(advertising).advertising
  /\ callAttached' = FALSE
  /\ lastEvent' = "detach"
  /\ stale' = (pc = "idle" /\ Trim(command_buffer) # <<>>)
  /\ UNCHANGED <<command_buffer, wifi, pc, attempt, ssid, stream, dispatched,
                 callEmit, callTx, callWifi, callReads, elapsed>>

\* ------------------------------------------------------------ network
\* the join requested by WiFi.begin completes in the WiFi task
JoinCompletes ==
  /\ Running
  /\ wifi = "joining"
  /\ wifi' = "joined"
  /\ UNCHANGED <<deviceConnected, command_buffer, advertising, pc, attempt, ssid,
                 stream, history, lifecycle>>

\* the access point drops the station; the WiFi task keeps the request
LinkLost ==
  /\ Running
  /\ wifi = "joined"
  /\ wifi' = "joining"
  /\ UNCHANGED <<deviceConnected, command_buffer, advertising, pc, attempt, ssid,
                 stream, history, lifecycle>>

Provisioning ==
  \/ WifiReset
  \/ WifiBegin
  \/ PollStatus
  \/ PollWait
  \/ FinishSuccess
  \/ FinishFailure

Environment ==
  \/ OnConnect
  \/ OnDisconnect
  \/ JoinCompletes
  \/ LinkLost

Next ==
  \/ OnWrite
  \/ Provisioning
  \/ Environment

Spec == Init /\ [][Next]_vars

\* the central writes one stream of bytes, cut into fragments of any sizes
Streams == SeqsUpTo(Bytes, MaxStream) \ {<<>>}

InitSplit ==
  /\ Setup
  /\ NoHistory
  /\ todo \in Streams
  /\ sent = <<>>
  /\ records = <<>>

NextSplit ==
  \/ OnWriteSplit
  \/ Provisioning
  \/ Environment

SpecSplit == InitSplit /\ [][NextSplit]_vars

\* ------------------------------------------------------------ framing claims
RECURSIVE Flatten(_)
Flatten(frags) ==
  IF frags = <<>> THEN <<>> ELSE Head(frags) \o Flatten(Tail(frags))

\* the bytes of the whole stream
SentBytes == Flatten(sent)
StreamBytes == SentBytes \o todo

Count(s, b) == Cardinality({i \in 1..Len(s) : s[i] = b})

NonSpace(b) == ~IsSpace(b)

\* one line holding one JSON object with a type member, whitespace allowed
\* around the tokens, the only newline being the last byte
ValidRecord(s) ==
  /\ Len(s) > 0
  /\ s[Len(s)] = "NL"
  /\ Count(s, "NL") = 1
  /\ SelectSeq(s, NonSpace) \in {<<"LB", "W", "RB">>, <<"LB", "P", "RB">>}

\* the record onWrite dispatches when the whole line arrives as one fragment
\* into an empty buffer
WholeRecord(s) == Trim(Accumulate(<<>>, s))

\* C1: a valid newline-terminated record written into an empty buffer, cut
\* into non-empty fragments in any way, is dispatched exactly once, when its
\* last fragment has arrived, and the dispatched record is the one the
\* single-fragment write dispatches.
C1_SplitInvariance ==
  ValidRecord(StreamBytes) =>
    records = IF todo = <<>> THEN <<WholeRecord(StreamBytes)>> ELSE <<>>

\* a valid record has arrived one byte per fragment and has been dispatched
C1_Witness ==
  /\ ValidRecord(SentBytes)
  /\ todo = <<>>
  /\ Len(sent) = Len(SentBytes)
  /\ Len(sent) >= 4
  /\ records = <<WholeRecord(SentBytes)>>

\* the framer of the specification: split on the first terminator, yield the
\* trimmed prefix, continue with the remainder
FirstNewline(s) == CHOOSE i \in 1..Len(s) : s[i] = "NL" /\ \A j \in 1..(i - 1) : s[j] # "NL"

RECURSIVE FramedRecords(_)
FramedRecords(s) ==
  IF Count(s, "NL") = 0 THEN <<>>
  ELSE <<Trim(SubSeq(s, 1, FirstNewline(s) - 1))>>
         \o FramedRecords(SubSeq(s, FirstNewline(s) + 1, Len(s)))

RECURSIVE FramedRest(_)
FramedRest(s) ==
  IF Count(s, "NL") = 0 THEN s
  ELSE FramedRest(SubSeq(s, FirstNewline(s) + 1, Len(s)))

\* C2: once every fragment of a stream has been handled, a stream carrying k
\* terminators has yielded k records, the trimmed text before each terminator
\* in order, and the bytes after the last terminator are what is buffered.
C2_SplitsOnEveryTerminator ==
  (todo = <<>> /\ pc = "idle" /\ ~callFatal /\ Count(SentBytes, "NUL") = 0) =>
    /\ records = FramedRecords(SentBytes)
    /\ command_buffer = FramedRest(SentBytes)

\* ------------------------------------------------------------ dispatcher claims
Has(r, f) == f \in DOMAIN r

\* the invocation handed one record to the decoder
Dispatched == Len(callParsed) = 1
DecodeFailed == Dispatched /\ callParsed[1].error
UnknownType == Dispatched /\ ~callParsed[1].error /\ callParsed[1].type # "wifi_config"
WifiCommand == Dispatched /\ ~callParsed[1].error /\ callParsed[1].type = "wifi_config"
NoProvisioning == pc = "idle" /\ callWifi = <<>>

\* C3: a record that fails decoding gets exactly one response, with status
\* "error", message "Invalid JSON format." and type "command_response" or
\* "error", and the provisioning state machine is not invoked.
C3_DecodeFailureResponse ==
  DecodeFailed =>
    /\ Len(callEmit) = 1
    /\ Has(callEmit[1], "status") /\ callEmit[1].status = "error"
    /\ Has(callEmit[1], "message") /\ callEmit[1].message = "Invalid JSON format."
    /\ Has(callEmit[1], "type") /\ callEmit[1].type \in {"command_response", "error"}
    /\ NoProvisioning

\* C4: a record that decodes and whose type is absent or is not "wifi_config"
\* gets exactly one response with type "command_response", status "error" and
\* message "Unknown command type.", and the provisioning state machine is not
\* invoked.
C4_UnknownCommandResponse ==
  UnknownType =>
    /\ Len(callEmit) = 1
    /\ Has(callEmit[1], "type") /\ callEmit[1].type = "command_response"
    /\ Has(callEmit[1], "status") /\ callEmit[1].status = "error"
    /\ Has(callEmit[1], "message") /\ callEmit[1].message = "Unknown command type."
    /\ NoProvisioning

\* ------------------------------------------------------------ provisioning claims
\* what the adapter receives when every response of the sequence is sent
Wire(responses) ==
  [i \in 1..Len(responses) |-> [value |-> responses[i], term |-> "NL"]]

IsWifiResponse(r, statuses) ==
  /\ Has(r, "type") /\ r.type = "wifi_config_response"
  /\ Has(r, "status") /\ r.status \in statuses
  /\ Has(r, "message")

\* C5: a wifi_config command makes connectToWifi hand out exactly two
\* wifi_config_response responses, info first, while neither the reset of
\* the association nor the join has been called, then one of success or
\* error when the call ends; while the central stays attached both reach
\* the adapter in that order.
C5_InfoThenTerminal ==
  WifiCommand =>
    /\ Len(callEmit) >= 1
    /\ IsWifiResponse(callEmit[1], {"info"})
    /\ (pc = "reset" => callWifi = <<>>)
    /\ (pc # "idle" => Len(callEmit) = 1)
    /\ (pc = "idle" =>
          /\ Len(callEmit) = 2
          /\ IsWifiResponse(callEmit[2], {"success", "error"}))
    /\ (callAttached => callTx = Wire(callEmit))

\* connectToWifi has returned with the central attached throughout, and the
\* adapter has received the info response and then the error response
C5_Witness ==
  /\ WifiCommand
  /\ pc = "idle"
  /\ callAttached
  /\ Len(callTx) = 2
  /\ callTx[1].value.status = "info"
  /\ callTx[2].value.status = "error"

\* no read of WiFi.status() made by the invocation reported WL_CONNECTED
NeverJoined == \A i \in 1..Len(callReads) : callReads[i] = "not_joined"

\* C6: when no status read reports joined, connectToWifi has sent info and
\* then the error "Failed to connect to Home. Check credentials.", after 30
\* polls each followed by one 500-unit wait, and has called disconnect on
\* the network primitive after the join, leaving no association.
C6_TimeoutAfterThirtyPolls ==
  (WifiCommand /\ pc = "idle" /\ NeverJoined) =>
    /\ Len(callEmit) = 2
    /\ callEmit[1].status = "info"
    /\ callEmit[2].status = "error"
    /\ callEmit[2].message = "Failed to connect to Home. Check credentials."
    /\ elapsed = ResetDelay + 30 * 500
    /\ Len(callReads) = 30 + 2
    /\ callWifi = <<"disconnect", "begin", "disconnect">>
    /\ wifi = "none"

\* connectToWifi has returned after a run in which the join never completed
C6_Witness ==
  /\ WifiCommand
  /\ pc = "idle"
  /\ NeverJoined
  /\ Len(callReads) > 2
  /\ callEmit[2].status = "error"

\* the read that ended the poll loop reported joined, with attempt below the
\* ceiling
LoopSawJoined ==
  /\ Len(callReads) >= 2
  /\ Len(callReads) - 1 <= MaxAttempts
  /\ callReads[Len(callReads) - 1] = "joined"

\* C7: when a poll below the ceiling reports joined, connectToWifi ends with
\* the response success "Successfully connected to Home" and without a
\* disconnect call after the join.
C7_JoinedPollGivesSuccess ==
  (WifiCommand /\ pc = "idle" /\ LoopSawJoined) =>
    /\ Len(callEmit) = 2
    /\ callEmit[2].status = "success"
    /\ callEmit[2].message = "Successfully connected to Home"
    /\ callWifi = <<"disconnect", "begin">>

\* ------------------------------------------------------------ emission claims
\* C8: a step taken while deviceConnected is false makes no call into the
\* outbound characteristic (the log of adapter calls can only be cleared by
\* the start of the next invocation).
C8_DetachedSendsNothing ==
  [][~deviceConnected => callTx' \in {callTx, <<>>}]_vars

\* the terminal response was handed to sendBleResponse while detached and
\* did not reach the adapter
C8_Witness ==
  /\ ~deviceConnected
  /\ pc = "idle"
  /\ Len(callEmit) = 2
  /\ Len(callTx) < Len(callEmit)

\* C9: every response handed to sendBleResponse carries a type, a status
\* that is info, success or error, and a message.
C9_ResponseShape ==
  \A i \in 1..Len(callEmit) :
    /\ Has(callEmit[i], "type")
    /\ Has(callEmit[i], "status") /\ callEmit[i].status \in {"info", "success", "error"}
    /\ Has(callEmit[i], "message")

\* C10: an invocation of onWrite dispatches at most one record; without a
\* dispatched record it emits nothing; for a record that is not a
\* wifi_config command it emits at most one response; for a wifi_config
\* command it emits at most two, the first being the info response.
C10_ResponsesPerCommand ==
  /\ Len(callParsed) <= 1
  /\ (callParsed = <<>> => callEmit = <<>>)
  /\ (Dispatched /\ ~WifiCommand => Len(callEmit) <= 1)
  /\ (WifiCommand =>
        /\ Len(callEmit) <= 2
        /\ (Len(callEmit) = 2 =>
              /\ callEmit[1].status = "info"
              /\ callEmit[2].status \in {"success", "error"}))

\* a wifi_config command has been answered by info and then success
C10_Witness ==
  /\ WifiCommand
  /\ pc = "idle"
  /\ Len(callEmit) = 2
  /\ callEmit[2].status = "success"

\* ------------------------------------------------------------ dispatch claims
\* C11: a record that is empty after trimming (the buffer held only a
\* newline) is answered by one response, the error "Unknown command type."
\* (with or without the full stop), not by the invalid-JSON error.
C11_EmptyRecordIsUnknownCommand ==
  (Dispatched /\ callRecords[1] = <<>>) =>
    /\ Len(callEmit) = 1
    /\ Has(callEmit[1], "message")
    /\ callEmit[1].message \in {"Unknown command type.", "Unknown command type"}

\* C12: no invocation of onWrite reaches a fatal condition: whatever the
\* fragment and the network do, the callback is either waiting for the next
\* fragment or inside the bounded poll loop of connectToWifi.
C12_NoFatalCondition ==
  /\ pc # "fatal"
  /\ ~callFatal
  /\ attempt <= MaxAttempts

\* ------------------------------------------------------------ lifecycle claims
\* C13: the connection flag is set exactly when the last lifecycle callback
\* was onConnect, advertising is on after every onDisconnect, and a step
\* that changes the flag is a step of onConnect or onDisconnect.
C13_FlagFollowsLifecycle ==
  /\ [](deviceConnected <=> lastEvent = "attach")
  /\ [](lastEvent = "detach" => advertising)
  /\ [][deviceConnected' # deviceConnected => OnConnect \/ OnDisconnect]_vars

\* the central detached after a provisioning attempt that ran while it was
\* attached, and the device advertises again
C13_Witness ==
  /\ lastEvent = "detach"
  /\ ~deviceConnected
  /\ advertising
  /\ WifiCommand
  /\ Len(callTx) = 2

\* ------------------------------------------------------------ buffer claims
\* C14: when onWrite has dispatched a record and returned, command_buffer is
\* empty, whichever of the three paths the record took.
C14_BufferEmptyAfterDispatch ==
  (Dispatched /\ pc = "idle") => command_buffer = <<>>

\* a wifi_config record has been through connectToWifi and the buffer is
\* empty on return
C14_Witness ==
  /\ WifiCommand
  /\ pc = "idle"
  /\ Len(callEmit) = 2
  /\ callRecords # <<>>
  /\ command_buffer = <<>>

\* C15: an invocation of onWrite after whose append the buffer holds no
\* newline dispatches nothing, emits nothing, leaves the network alone, and
\* leaves the buffer equal to the previous buffer followed by the fragment.
C15_IncompleteKeepsFragment ==
  [][(sent' # sent /\ Count(callInput', "NL") = 0) =>
       /\ callParsed' = <<>>
       /\ callEmit' = <<>>
       /\ callWifi' = <<>>
       /\ wifi' = wifi
       /\ command_buffer' = command_buffer \o sent'[Len(sent')]]_vars

\* C16: a record dispatched while a central is attached holds no byte that
\* was left in the buffer by a connection that has ended.
C16_NoBytesOfEarlierConnection ==
  Dispatched => ~callStale

\* ------------------------------------------------------------ association claims
\* the invocation emitted the terminal response with this status
Terminal(status) ==
  /\ WifiCommand
  /\ Len(callEmit) = 2
  /\ callEmit[2].status = status

\* C17: the step that emits the terminal error leaves no association; the
\* association only leaves "none" by the WiFi.begin of a wifi_config
\* command; and one command calls WiFi.begin once.
C17_ErrorAbortsJoin ==
  /\ [][(Len(callEmit) = 1 /\ Len(callEmit') = 2 /\ callEmit'[2].status = "error")
          => wifi' = "none"]_vars
  /\ [][(wifi = "none" /\ wifi' # "none")
          => pc = "begin" /\ callWifi' = <<"disconnect", "begin">>]_vars
  /\ [](Count(callWifi, "begin") <= 1)
  /\ [](Terminal("error") => Count(callWifi, "begin") = 1 /\ wifi = "none")

\* the join was still in progress when the poll loop gave up, and the error
\* response left no association behind
C17_Witness ==
  /\ Terminal("error")
  /\ pc = "idle"
  /\ NeverJoined
  /\ Count(callWifi, "begin") = 1
  /\ wifi = "none"

\* C18: onDisconnect during connectToWifi changes neither the position in
\* the poll loop nor the association; the loop is left only on a joined
\* read or at attempt 30; a run that never read joined ends with the
\* teardown; and a response emitted while detached makes no adapter call.
C18_DetachDoesNotCancel ==
  /\ [][(deviceConnected /\ ~deviceConnected' /\ pc # "idle")
          => /\ pc' = pc
             /\ attempt' = attempt
             /\ wifi' = wifi
             /\ callWifi' = callWifi]_vars
  /\ [](pc = "final"
          => callReads[Len(callReads)] = "joined" \/ attempt = MaxAttempts)
  /\ []((WifiCommand /\ pc = "idle" /\ NeverJoined)
          => callWifi = <<"disconnect", "begin", "disconnect">>)
  /\ [][(~deviceConnected /\ Len(callEmit') > Len(callEmit) /\ pc # "idle")
          => callTx' = callTx]_vars

\* the central detached during the attempt: the adapter got the info
\* response only, the loop ran to the ceiling and the teardown was made
C18_Witness ==
  /\ Terminal("error")
  /\ pc = "idle"
  /\ ~deviceConnected
  /\ Len(callTx) = 1
  /\ callTx[1].value.status = "info"
  /\ Len(callReads) = MaxAttempts + 2
  /\ callWifi = <<"disconnect", "begin", "disconnect">>

\* C19: when connectToWifi has returned, the response is success exactly
\* when the last status read (the one of line 208, after the loop) reported
\* joined, and it is error, with the teardown made, exactly when it did not.
C19_OutcomeFromFinalRead ==
  (WifiCommand /\ pc = "idle") =>
    /\ Len(callEmit) = 2
    /\ Len(callReads) >= 2
    /\ callEmit[2].status = "success" <=> callReads[Len(callReads)] = "joined"
    /\ callEmit[2].status = "error" <=> callReads[Len(callReads)] # "joined"
    /\ callEmit[2].status = "error" <=> callWifi = <<"disconnect", "begin", "disconnect">>
    /\ callEmit[2].status = "success" <=> callWifi = <<"disconnect", "begin">>

\* the loop ended on a joined read, the link dropped, and the read after the
\* loop decided for error
C19_Witness ==
  /\ Terminal("error")
  /\ pc = "idle"
  /\ LoopSawJoined
  /\ callReads[Len(callReads)] = "not_joined"

\* C20: connectToWifi calls WiFi.disconnect() before WiFi.begin(), so the
\* join starts from no association, and after the error outcome there is no
\* association, whatever it was when the command arrived.
C20_ResetsPriorAssociation ==
  WifiCommand =>
    /\ (callWifi # <<>> => callWifi[1] = "disconnect")
    /\ (Len(callWifi) >= 2 => callWifi[2] = "begin")
    /\ (pc = "begin" => wifi = "none")
    /\ (Terminal("error") /\ pc = "idle" => wifi = "none")

\* the device was joined when the command arrived and is left without an
\* association by the error outcome
C20_Witness ==
  /\ Terminal("error")
  /\ pc = "idle"
  /\ callPrior = "joined"
  /\ wifi = "none"

====
